---- MODULE Spec2Model ----
(***************************************************************************)
(* Model of check_opinions_chancery.py: one run of main() after another    *)
(* over a seen-opinions file, a web page of anchors, a downloads/          *)
(* directory and an SMTP transport.  Every I/O step that can raise is a    *)
(* nondeterministic choice between its outcomes.                           *)
(***************************************************************************)
EXTENDS Naturals, Sequences, FiniteSets

VARIABLES fileState, store, page, downloads,
          pc, run, seen_opinions, seen_urls, current_opinions, new_opinions,
          pdf_paths, i,
          outcome, store0, fileState0, downloadLog, sendLog, saveCount, prev,
          pageChanged

vars == <<fileState, store, page, downloads,
          pc, run, seen_opinions, seen_urls, current_opinions, new_opinions,
          pdf_paths, i,
          outcome, store0, fileState0, downloadLog, sendLog, saveCount, prev,
          pageChanged>>

(* ---------------------------- bounds ----------------------------------- *)
MaxLinks == 2
MaxRuns == 2

(* ------------------------- the modelled world --------------------------- *)
(* A url is the sequence of its "/"-separated segments; None is <<>>.       *)
None == <<>>
UrlA == <<"chancery", "a", "op.pdf">>
UrlB == <<"Chancery", "b", "op.pdf">>
UrlS == <<"supreme", "s.pdf">>

Anchors ==
    { [href |-> UrlA, text |-> "In re A"],
      [href |-> UrlB, text |-> "In re B"],
      [href |-> UrlS, text |-> "Smith v. Jones"],
      [href |-> UrlA, text |-> " "],
      [href |-> None, text |-> "Home"] }

RECURSIVE SeqsUpTo(_, _)
SeqsUpTo(S, n) ==
    IF n = 0 THEN {<<>>}
    ELSE LET shorter == SeqsUpTo(S, n - 1)
         IN  shorter \cup {Append(s, x) : s \in shorter, x \in S}

Pages == SeqsUpTo(Anchors, MaxLinks)

(* ------------------------- string operations --------------------------- *)
(* str.lower() on one segment *)
LowerSeg(seg) ==
    CASE seg = "Chancery" -> "chancery"
      [] OTHER            -> seg

Lower(url) == [k \in 1..Len(url) |-> LowerSeg(url[k])]

(* '.pdf' in s, 'chancery' in s: case-sensitive substring tests *)
ContainsPdf(url) == \E k \in 1..Len(url) : url[k] \in {"op.pdf", "s.pdf"}
ContainsChancery(url) == \E k \in 1..Len(url) : url[k] = "chancery"

(* str.strip() *)
Strip(text) == IF text = " " THEN "" ELSE text

(* url.split("/")[-1] *)
LastSegment(url) == url[Len(url)]

FileNames == {LastSegment(a.href) : a \in {b \in Anchors : b.href # None}}

(* ------------------------------ scraping -------------------------------- *)
Record(a, now) == [title |-> Strip(a.text), url |-> a.href, date_found |-> now]

(* driver.find_elements(By.XPATH, "//a[contains(@href, '.pdf')]") *)
XPathPdf(a) == ContainsPdf(a.href)

(* the condition of the first loop *)
PrimaryKeep(a) ==
    a.href # None /\ Strip(a.text) # "" /\ ContainsChancery(Lower(a.href))

(* the condition of the broader search *)
FallbackKeep(a) ==
    a.href # None /\ ContainsPdf(Lower(a.href)) /\ Strip(a.text) # ""

(* One pass over the anchors from position k on; an anchor in stale raises  *)
(* inside the loop body and is skipped by the bare except.                  *)
RECURSIVE Pass(_, _, _, _, _)
Pass(links, k, stale, now, primary) ==
    IF k > Len(links) THEN <<>>
    ELSE LET a == links[k]
             keep == /\ k \notin stale
                     /\ IF primary THEN XPathPdf(a) /\ PrimaryKeep(a)
                                   ELSE FallbackKeep(a)
         IN  (IF keep THEN <<Record(a, now)>> ELSE <<>>)
                 \o Pass(links, k + 1, stale, now, primary)

ScrapeOpinions(links, stale, now) ==
    LET opinions == Pass(links, 1, stale, now, TRUE)
    IN  IF Len(opinions) = 0 THEN Pass(links, 1, stale, now, FALSE)
        ELSE opinions

(* ------------------------------- main ----------------------------------- *)
(* download_pdf: filepath = Path("downloads") / filename *)
FilePath(filename) == <<"downloads", filename>>

SeenUrlsByTitle(opinions) == {opinions[k].title : k \in 1..Len(opinions)}

SeenUrls(opinions) == {opinions[k].url : k \in 1..Len(opinions)}

RECURSIVE DiffReversed(_, _)
DiffReversed(current, urls) ==
    IF current = <<>> THEN <<>>
    ELSE DiffReversed(Tail(current), urls)
             \o (IF Head(current).url \notin urls THEN <<Head(current)>> ELSE <<>>)

RECURSIVE Diff(_, _)
Diff(current, urls) ==
    IF current = <<>> THEN <<>>
    ELSE (IF Head(current).url \notin urls THEN <<Head(current)>> ELSE <<>>)
             \o Diff(Tail(current), urls)

AfterDiffAlways(new) == "download"

AfterDiff(new) == IF new # <<>> THEN "download" ELSE "exit"

AppendPathAlways(paths, pdf_path) == Append(paths, pdf_path)

AppendPath(paths, pdf_path) ==
    IF pdf_path # None THEN Append(paths, pdf_path) ELSE paths

AfterSendAlways(sent) == "persist"

AfterSend(sent) == IF sent THEN "persist" ELSE "exit"

ExtendFront(seen, new) == new \o seen

Extend(seen, new) == seen \o new

(* the attachments send_email builds from pdf_paths *)
Attachments(paths, dir) ==
    LET present == SelectSeq(paths, LAMBDA p : p # None /\ dir[LastSegment(p)] # None)
    IN  [k \in 1..Len(present) |->
            [name |-> LastSegment(present[k]), content |-> dir[LastSegment(present[k])]]]

Body(new) == [k \in 1..Len(new) |-> <<new[k].title, new[k].url>>]

Urls(opinions) == {opinions[k].url : k \in 1..Len(opinions)}

(* what one run leaves for the next to be compared with *)
SendResult(log) ==
    IF log = <<>> THEN "none" ELSE IF log[Len(log)].sent THEN "ok" ELSE "failed"

NoPrev == [ended |-> "none", send |-> "none", candUrls |-> {}, newUrls |-> {}]

InitStores == { <<>>, <<[title |-> "In re A", url |-> UrlA, date_found |-> 0]>> }

Init ==
    /\ fileState \in {"missing", "valid", "corrupt"}
    /\ store \in (IF fileState = "valid" THEN InitStores ELSE {<<>>})
    /\ page \in Pages
    /\ downloads = [f \in FileNames |-> None]
    /\ pc = "idle"
    /\ run = 0
    /\ seen_opinions = <<>>
    /\ seen_urls = {}
    /\ current_opinions = <<>>
    /\ new_opinions = <<>>
    /\ pdf_paths = <<>>
    /\ i = 1
    /\ outcome = "none"
    /\ store0 = store
    /\ fileState0 = fileState
    /\ downloadLog = <<>>
    /\ sendLog = <<>>
    /\ saveCount = 0
    /\ prev = NoPrev
    /\ pageChanged = FALSE

(* The site publishes another page between two runs. *)
PublishPage ==
    /\ pc = "idle"
    /\ run < MaxRuns
    /\ ~pageChanged
    /\ \E p \in Pages \ {page} : page' = p
    /\ pageChanged' = TRUE
    /\ UNCHANGED <<fileState, store, downloads, pc, run, seen_opinions, seen_urls,
                   current_opinions, new_opinions, pdf_paths, i, outcome, store0,
                   fileState0, downloadLog, sendLog, saveCount, prev>>

(* main(): load_seen_opinions() and the seen_urls comprehension *)
LoadSeen ==
    /\ pc = "idle"
    /\ run < MaxRuns
    /\ run' = run + 1
    /\ store0' = store
    /\ fileState0' = fileState
    /\ IF fileState = "corrupt"
       THEN /\ seen_opinions' = <<>>
            /\ seen_urls' = {}
            /\ outcome' = "crashed_load"
            /\ pc' = "exit"
       ELSE /\ seen_opinions' = (IF fileState = "missing" THEN <<>> ELSE store)
            /\ seen_urls' = SeenUrls(seen_opinions')
            /\ outcome' = "running"
            /\ pc' = "setup"
    /\ UNCHANGED <<fileState, store, page, downloads, current_opinions, new_opinions,
                   pdf_paths, i, downloadLog, sendLog, saveCount, prev, pageChanged>>

(* scrape_chancery_opinions(): driver = setup_driver(), before the try *)
SetupDriver ==
    /\ pc = "setup"
    /\ \/ pc' = "scrape" /\ outcome' = outcome
       \/ pc' = "exit" /\ outcome' = "crashed_driver"
    /\ UNCHANGED <<fileState, store, page, downloads, run, seen_opinions, seen_urls,
                   current_opinions, new_opinions, pdf_paths, i, store0, fileState0,
                   downloadLog, sendLog, saveCount, prev, pageChanged>>

(* scrape_chancery_opinions(): the try block *)
Scrape ==
    /\ pc = "scrape"
    /\ \/ current_opinions' = <<>>
       \/ \E stale \in SUBSET (1..Len(page)) :
              current_opinions' = ScrapeOpinions(page, stale, run)
    /\ pc' = "diff"
    /\ UNCHANGED <<fileState, store, page, downloads, run, seen_opinions, seen_urls,
                   new_opinions, pdf_paths, i, outcome, store0, fileState0,
                   downloadLog, sendLog, saveCount, prev, pageChanged>>

(* main(): new_opinions and the if on it *)
DiffStep ==
    /\ pc = "diff"
    /\ new_opinions' = Diff(current_opinions, seen_urls)
    /\ pc' = AfterDiff(new_opinions')
    /\ outcome' = IF pc' = "exit" THEN "skipped" ELSE outcome
    /\ UNCHANGED <<fileState, store, page, downloads, run, seen_opinions, seen_urls,
                   current_opinions, pdf_paths, i, store0, fileState0,
                   downloadLog, sendLog, saveCount, prev, pageChanged>>

(* main(): one iteration of the download loop, download_pdf included *)
Download ==
    /\ pc = "download"
    /\ i <= Len(new_opinions)
    /\ LET url == new_opinions[i].url
           filename == LastSegment(url)
       IN  \/ /\ downloads' = [downloads EXCEPT ![filename] = url]
              /\ pdf_paths' = AppendPath(pdf_paths, FilePath(filename))
              /\ downloadLog' = Append(downloadLog, [url |-> url, ok |-> TRUE])
           \/ /\ downloads' = downloads
              /\ pdf_paths' = AppendPath(pdf_paths, None)
              /\ downloadLog' = Append(downloadLog, [url |-> url, ok |-> FALSE])
    /\ i' = i + 1
    /\ UNCHANGED <<fileState, store, page, pc, run, seen_opinions, seen_urls,
                   current_opinions, new_opinions, outcome, store0, fileState0,
                   sendLog, saveCount, prev, pageChanged>>

(* main(): send_email(new_opinions, pdf_paths) and the if on its result *)
SendEmail ==
    /\ pc = "download"
    /\ i > Len(new_opinions)
    /\ \E sent \in BOOLEAN :
          /\ sendLog' = Append(sendLog, [body |-> Body(new_opinions),
                                         paths |-> pdf_paths,
                                         attachments |-> Attachments(pdf_paths, downloads),
                                         sent |-> sent])
          /\ pc' = AfterSend(sent)
          /\ outcome' = IF pc' = "exit" THEN "send_failed" ELSE outcome
    /\ UNCHANGED <<fileState, store, page, downloads, run, seen_opinions, seen_urls,
                   current_opinions, new_opinions, pdf_paths, i, store0, fileState0,
                   downloadLog, saveCount, prev, pageChanged>>

(* main(): seen_opinions.extend(new_opinions); save_seen_opinions(...) *)
Persist ==
    /\ pc = "persist"
    /\ seen_opinions' = Extend(seen_opinions, new_opinions)
    /\ store' = seen_opinions'
    /\ fileState' = "valid"
    /\ saveCount' = saveCount + 1
    /\ outcome' = "persisted"
    /\ pc' = "exit"
    /\ UNCHANGED <<page, downloads, run, seen_urls, current_opinions, new_opinions,
                   pdf_paths, i, store0, fileState0, downloadLog, sendLog, prev,
                   pageChanged>>

(* The process ends; what the next run can be compared with is kept in prev. *)
Exit ==
    /\ pc = "exit"
    /\ pc' = "idle"
    /\ prev' = [ended |-> outcome, send |-> SendResult(sendLog),
                candUrls |-> Urls(current_opinions), newUrls |-> Urls(new_opinions)]
    /\ outcome' = "none"
    /\ seen_opinions' = <<>>
    /\ seen_urls' = {}
    /\ current_opinions' = <<>>
    /\ new_opinions' = <<>>
    /\ pdf_paths' = <<>>
    /\ i' = 1
    /\ downloadLog' = <<>>
    /\ sendLog' = <<>>
    /\ saveCount' = 0
    /\ store0' = store
    /\ fileState0' = fileState
    /\ pageChanged' = FALSE
    /\ UNCHANGED <<fileState, store, page, downloads, run>>

Next ==
    \/ PublishPage
    \/ LoadSeen
    \/ SetupDriver
    \/ Scrape
    \/ DiffStep
    \/ Download
    \/ SendEmail
    \/ Persist
    \/ Exit

Spec == Init /\ [][Next]_vars

(* ======================= properties of the program ====================== *)
(* the run has computed new_opinions *)
Diffed ==
    \/ pc \in {"download", "persist"}
    \/ pc = "exit" /\ outcome \in {"skipped", "send_failed", "persisted"}

(* the download loop of the run is over *)
Fetched ==
    \/ pc = "download" /\ i > Len(new_opinions)
    \/ pc = "persist"
    \/ pc = "exit" /\ outcome \in {"send_failed", "persisted"}

(* positions of S whose url is the url of no record of T *)
NewIdx(S, T) == {k \in 1..Len(S) : \A j \in 1..Len(T) : T[j].url # S[k].url}

(* N is S restricted to NewIdx(S, T), in the order of S *)
IsNewOf(N, S, T) ==
    /\ Len(N) = Cardinality(NewIdx(S, T))
    /\ \A k \in NewIdx(S, T) : N[Cardinality({j \in NewIdx(S, T) : j <= k})] = S[k]

Succeeded == SelectSeq(downloadLog, LAMBDA d : d.ok)

BodyUrls(msg) == {msg.body[k][2] : k \in 1..Len(msg.body)}

NoDuplicateUrl(opinions) ==
    \A j, k \in 1..Len(opinions) : j # k => opinions[j].url # opinions[k].url

(* C1: when send_email returns failure the store is what it was before the  *)
(* run, whatever downloads succeeded, and save_seen_opinions is not called. *)
Thm_C1 ==
    (pc # "idle" /\ sendLog # <<>> /\ ~sendLog[1].sent)
        => /\ store = store0
           /\ fileState = fileState0
           /\ saveCount = 0

Wit_C1 ==
    /\ pc = "exit"
    /\ sendLog # <<>> /\ ~sendLog[1].sent
    /\ store0 # <<>>
    /\ \E j, k \in 1..Len(downloadLog) : downloadLog[j].ok /\ ~downloadLog[k].ok
    /\ store = store0

(* C2: a record that was new in a run whose send_email failed and whose url *)
(* is scraped again in the next run is new again, is downloaded again and   *)
(* is listed in the message; a url enters the store only in a run whose     *)
(* send_email succeeded for a message listing it.                           *)
Thm_C2 ==
    /\ (prev.send = "failed" /\ Diffed)
          => \A u \in prev.newUrls \cap Urls(current_opinions) :
                /\ u \in Urls(new_opinions)
                /\ Fetched => \E k \in 1..Len(downloadLog) : downloadLog[k].url = u
                /\ sendLog # <<>> => u \in BodyUrls(sendLog[1])
    /\ pc # "idle"
          => \A u \in Urls(store) \ Urls(store0) :
                sendLog # <<>> /\ sendLog[1].sent /\ u \in BodyUrls(sendLog[1])

Wit_C2 ==
    /\ prev.send = "failed"
    /\ pc = "exit"
    /\ sendLog # <<>> /\ sendLog[1].sent
    /\ prev.newUrls \cap Urls(current_opinions) # {}
    /\ prev.newUrls \cap Urls(store) # {}

(* C3 as stated: a second run over an unchanged page has an empty new set.  *)
(* Stated for the runs whose scrape returns the candidate urls the previous *)
(* run's scrape returned, which is what an unchanged page yields when       *)
(* neither render fails.                                                    *)
CE_C3 ==
    (/\ prev.ended \in {"skipped", "send_failed", "persisted"}
     /\ ~pageChanged
     /\ Diffed
     /\ Urls(current_opinions) = prev.candUrls)
        => new_opinions = <<>>

(* C3 amended: after a run that ended with an empty new set or a successful *)
(* send_email, a run over the unchanged page whose scrape returns the same  *)
(* candidate urls has an empty new set: no download, no email, no write.    *)
Thm_C3 ==
    (/\ prev.ended \in {"skipped", "persisted"}
     /\ ~pageChanged
     /\ Diffed
     /\ Urls(current_opinions) = prev.candUrls)
        => /\ new_opinions = <<>>
           /\ downloadLog = <<>>
           /\ sendLog = <<>>
           /\ saveCount = 0
           /\ store = store0

Wit_C3 ==
    /\ prev.ended = "persisted"
    /\ ~pageChanged
    /\ pc = "exit" /\ outcome = "skipped"
    /\ Urls(current_opinions) = prev.candUrls
    /\ Cardinality(prev.candUrls) >= 2

(* C4: no two records of the persisted seen-opinions list have the same url. *)
CE_C4 == NoDuplicateUrl(store)

(* C5: new_opinions is exactly the records of current_opinions whose url is *)
(* the url of no record of seen_opinions, in the order of current_opinions. *)
Thm_C5 ==
    (Diffed /\ ~(pc = "exit" /\ outcome = "persisted"))
        => IsNewOf(new_opinions, current_opinions, seen_opinions)

Wit_C5 ==
    /\ pc = "download"
    /\ seen_opinions # <<>>
    /\ Len(new_opinions) >= 1
    /\ Len(current_opinions) > Len(new_opinions)
    /\ IsNewOf(new_opinions, current_opinions, seen_opinions)

(* C6: a failed download does not abort the batch: every new record is      *)
(* attempted once, send_email is invoked exactly once, its body lists every *)
(* new record and its attachment list is the paths of the downloads that    *)
(* succeeded.                                                               *)
Thm_C6 ==
    /\ Len(sendLog) <= 1
    /\ (Fetched /\ new_opinions # <<>>)
          => /\ Len(downloadLog) = Len(new_opinions)
             /\ \A k \in 1..Len(new_opinions) : downloadLog[k].url = new_opinions[k].url
    /\ (pc \in {"persist", "exit"} /\ new_opinions # <<>>) => Len(sendLog) = 1
    /\ sendLog # <<>>
          => /\ Len(sendLog[1].body) = Len(new_opinions)
             /\ \A k \in 1..Len(new_opinions) :
                   sendLog[1].body[k] = <<new_opinions[k].title, new_opinions[k].url>>
             /\ Len(sendLog[1].paths) = Len(Succeeded)
             /\ \A k \in 1..Len(Succeeded) :
                   sendLog[1].paths[k] = <<"downloads", LastSegment(Succeeded[k].url)>>

Wit_C6 ==
    /\ sendLog # <<>> /\ sendLog[1].sent
    /\ Len(new_opinions) = 2
    /\ ~downloadLog[1].ok /\ downloadLog[2].ok
    /\ Len(sendLog[1].paths) = 1

(* C7: a run ends abnormally only when the persisted state file is          *)
(* malformed.                                                               *)
CE_C7 ==
    (pc = "exit" /\ outcome \in {"crashed_load", "crashed_driver"})
        => fileState = "corrupt"

(* C8: attachments correspond one-to-one to the downloads that succeeded,   *)
(* each carries the content downloaded for its own record, and records with *)
(* different urls are stored in different files.                            *)
CE_C8 ==
    sendLog # <<>>
        => /\ Len(sendLog[1].attachments) = Len(Succeeded)
           /\ \A k \in 1..Len(Succeeded) :
                 sendLog[1].attachments[k].content = Succeeded[k].url
           /\ \A j, k \in 1..Len(Succeeded) :
                 Succeeded[j].url # Succeeded[k].url
                     => sendLog[1].paths[j] # sendLog[1].paths[k]

(* C9: when send_email returns success the store after the run is the store *)
(* before the run followed by all new records in candidate order, records   *)
(* whose download failed included, and it is written exactly once.          *)
Thm_C9 ==
    /\ saveCount <= 1
    /\ (pc = "exit" /\ sendLog # <<>> /\ sendLog[1].sent)
          => /\ saveCount = 1
             /\ fileState = "valid"
             /\ Len(store) = Len(store0) + Cardinality(NewIdx(current_opinions, store0))
             /\ SubSeq(store, 1, Len(store0)) = store0
             /\ IsNewOf(SubSeq(store, Len(store0) + 1, Len(store)),
                        current_opinions, store0)

Wit_C9 ==
    /\ pc = "exit"
    /\ sendLog # <<>> /\ sendLog[1].sent
    /\ store0 # <<>>
    /\ \E k \in 1..Len(downloadLog) : ~downloadLog[k].ok
    /\ Len(store) = Len(store0) + 2

(* C10: when the diff is empty the run downloads nothing, does not invoke   *)
(* send_email and does not write the store.                                 *)
Thm_C10 ==
    (Diffed /\ new_opinions = <<>>)
        => /\ pc = "exit"
           /\ downloadLog = <<>>
           /\ sendLog = <<>>
           /\ saveCount = 0
           /\ store = store0
           /\ fileState = fileState0

Wit_C10 ==
    /\ pc = "exit" /\ outcome = "skipped"
    /\ current_opinions # <<>>
    /\ new_opinions = <<>>
    /\ store0 # <<>>

====
